---- MODULE Spec2Model ----
(***************************************************************************)
(* A model of the coveralls-api crate (src/src/lib.rs): the coverage       *)
(* expansion functions, Source::new, the CI service / identity resolution  *)
(* from the process environment, the CoverallsReport object with its       *)
(* serializer, and the upload status classification.                       *)
(*                                                                         *)
(* Three specifications share the variables:                               *)
(*   SpecEnv    - an environment is fixed, the Service:: and Identity::    *)
(*                constructors are called on it;                           *)
(*   SpecSource - expand_lines, expand_branches, Source::new and the       *)
(*                serializer are called on bounded inputs;                 *)
(*   SpecReport - a CoverallsReport is built, mutated, sent and polled.    *)
(***************************************************************************)
EXTENDS Integers, Sequences, FiniteSets, TLC

VARIABLES env, call, report, handle

vars == <<env, call, report, handle>>

(***************************************************************************)
(* Option<T> and Result<T, E>                                              *)
(***************************************************************************)
None == <<>>

Some(x) == <<x>>

is_some(o) == o # None

Ok(x) == [tag |-> "Ok", val |-> x]

Err(e) == [tag |-> "Err", err |-> e]

is_ok(r) == r.tag = "Ok"

\* Option::unwrap_or / unwrap_or_else
unwrap_or(o, d) == IF is_some(o) THEN o[1] ELSE d

(***************************************************************************)
(* The process environment, as std::env::var sees it: every name the crate *)
(* reads is either unset (None) or set to a string (Some(value)).  A value *)
(* that is not valid unicode makes var() return Err, which every caller    *)
(* treats exactly like an unset variable, so it is not a separate case.    *)
(***************************************************************************)
EnvNames ==
    { "TRAVIS", "TRAVIS_JOB_ID", "TRAVIS_PULL_REQUEST", "TRAVIS_BRANCH",
      "CIRCLECI", "CIRCLE_BUILD_NUM", "CIRCLE_BRANCH",
      "JENKINS_URL", "BUILD_NUM", "BUILD_URL", "GIT_BRANCH",
      "SEMAPHORE", "SEMAPHORE_BUILD_NUMBER", "PULL_REQUEST_NUMBER",
      "CI_NAME", "CI_BUILD_NUMBER", "CI_JOB_ID", "CI_BUILD_URL", "CI_BRANCH",
      "CI_PULL_REQUEST", "COVERALLS_REPO_TOKEN" }

\* The values a set variable may take in the model.  Every variable has a
\* value of its own, so that a field filled from the wrong variable shows.
EnvValues(n) ==
    CASE n = "TRAVIS_PULL_REQUEST"  -> { "false", "17" }
      [] n = "CI_NAME"              -> { "travis-ci", "travis-pro", "circle-ci",
                                         "semaphore", "jenkins", "codeship",
                                         "coveralls-ruby" }
      [] n = "COVERALLS_REPO_TOKEN" -> { "", "s3cr3t" }
      [] n \in { "TRAVIS", "CIRCLECI", "SEMAPHORE" } -> { "true" }
      [] OTHER                      -> { "val:" \o n }

\* At most this many variables are set in an environment of the model.
MaxEnvVars == 2

EmptyEnv == [n \in EnvNames |-> None]

RECURSIVE EnvsUpTo(_)
EnvsUpTo(k) ==
    IF k = 0 THEN { EmptyEnv }
    ELSE LET prev == EnvsUpTo(k - 1)
         IN  prev \cup UNION { { [e EXCEPT ![n] = Some(v)] :
                                     e \in prev, v \in EnvValues(n) } :
                                   n \in EnvNames }

Envs == EnvsUpTo(MaxEnvVars)

\* std::env::var(name).ok()
var(n) == env[n]

(***************************************************************************)
(* enum CiService, its FromStr and its string form                         *)
(***************************************************************************)
Travis == [tag |-> "Travis"]

TravisPro == [tag |-> "TravisPro"]

Circle == [tag |-> "Circle"]

Semaphore == [tag |-> "Semaphore"]

Jenkins == [tag |-> "Jenkins"]

Codeship == [tag |-> "Codeship"]

Other(s) == [tag |-> "Other", name |-> s]

\* impl FromStr for CiService: total, the result is always Ok(res).
CiService_from_str(s) ==
    CASE s = "travis-ci"  -> Travis
      [] s = "travis-pro" -> TravisPro
      [] s = "circle-ci"  -> Circle
      [] s = "semaphore"  -> Semaphore
      [] s = "jenkins"    -> Jenkins
      [] s = "codeship"   -> Codeship
      [] OTHER            -> Other(s)

\* CiService::value
CiService_value(c) ==
    CASE c.tag = "Travis"    -> "travis-ci"
      [] c.tag = "TravisPro" -> "travis-pro"
      [] c.tag = "Other"     -> c.name
      [] c.tag = "Circle"    -> "circle-ci"
      [] c.tag = "Semaphore" -> "semaphore"
      [] c.tag = "Jenkins"   -> "jenkins"
      [] c.tag = "Codeship"  -> "codeship"

(***************************************************************************)
(* struct Service and its constructors                                     *)
(***************************************************************************)
Service(name, job_id, number, build_url, branch, pull_request) ==
    [ name |-> name, job_id |-> job_id, number |-> number,
      build_url |-> build_url, branch |-> branch,
      pull_request |-> pull_request ]

\* Service::get_travis_env
Service_get_travis_env ==
    LET id     == var("TRAVIS_JOB_ID")
        pr     == IF is_some(var("TRAVIS_PULL_REQUEST"))
                     /\ var("TRAVIS_PULL_REQUEST")[1] # "false"
                  THEN Some(var("TRAVIS_PULL_REQUEST")[1])
                  ELSE None
        branch == var("TRAVIS_BRANCH")
    IN  Service(Travis, id, None, None, branch, pr)

\* Service::get_circle_env
Service_get_circle_env ==
    LET num    == var("CIRCLE_BUILD_NUM")
        branch == var("CIRCLE_BRANCH")
    IN  Service(Circle, None, num, None, branch, None)

\* Service::get_jenkins_env
Service_get_jenkins_env ==
    LET num    == var("BUILD_NUM")
        url    == var("BUILD_URL")
        branch == var("GIT_BRANCH")
    IN  Service(Jenkins, None, num, url, branch, None)

\* Service::get_semaphore_env
Service_get_semaphore_env ==
    LET num == var("SEMAPHORE_BUILD_NUMBER")
        pr  == var("PULL_REQUEST_NUMBER")
    IN  Service(Semaphore, None, num, None, None, pr)

\* A generic extraction that forgets CI_PULL_REQUEST in the presence test.
Service_get_generic_env_NoPr ==
    LET name   == var("CI_NAME")
        num    == var("CI_BUILD_NUMBER")
        id     == var("CI_JOB_ID")
        url    == var("CI_BUILD_URL")
        branch == var("CI_BRANCH")
        pr     == var("CI_PULL_REQUEST")
    IN  IF is_some(name) \/ is_some(num) \/ is_some(id) \/ is_some(url)
           \/ is_some(branch)
        THEN Some(Service(CiService_from_str(unwrap_or(name, "unknown")),
                          id, num, url, branch, pr))
        ELSE None

\* Service::get_generic_env
Service_get_generic_env ==
    LET name   == var("CI_NAME")
        num    == var("CI_BUILD_NUMBER")
        id     == var("CI_JOB_ID")
        url    == var("CI_BUILD_URL")
        branch == var("CI_BRANCH")
        pr     == var("CI_PULL_REQUEST")
    IN  IF is_some(name) \/ is_some(num) \/ is_some(id) \/ is_some(url)
           \/ is_some(branch) \/ is_some(pr)
        THEN Some(Service(CiService_from_str(unwrap_or(name, "unknown")),
                          id, num, url, branch, pr))
        ELSE None

\* A from_env that tests CIRCLECI before TRAVIS.
Service_from_env_CircleFirst ==
    IF is_some(var("CIRCLECI")) THEN Some(Service_get_circle_env)
    ELSE IF is_some(var("TRAVIS")) THEN Some(Service_get_travis_env)
    ELSE IF is_some(var("JENKINS_URL")) THEN Some(Service_get_jenkins_env)
    ELSE IF is_some(var("SEMAPHORE")) THEN Some(Service_get_semaphore_env)
    ELSE Service_get_generic_env

\* Service::from_env
Service_from_env ==
    IF is_some(var("TRAVIS")) THEN Some(Service_get_travis_env)
    ELSE IF is_some(var("CIRCLECI")) THEN Some(Service_get_circle_env)
    ELSE IF is_some(var("JENKINS_URL")) THEN Some(Service_get_jenkins_env)
    ELSE IF is_some(var("SEMAPHORE")) THEN Some(Service_get_semaphore_env)
    ELSE Service_get_generic_env

\* Service::from_ci
Service_from_ci(ci) ==
    IF ci.tag \in { "Travis", "TravisPro" }
    THEN Some([Service_get_travis_env EXCEPT !.name = ci])
    ELSE IF ci.tag = "Circle" THEN Some(Service_get_circle_env)
    ELSE IF ci.tag = "Semaphore" THEN Some(Service_get_semaphore_env)
    ELSE IF ci.tag = "Jenkins" THEN Some(Service_get_jenkins_env)
    ELSE Service_get_generic_env

(***************************************************************************)
(* enum Identity and its constructors                                      *)
(***************************************************************************)
RepoToken(token) == [tag |-> "RepoToken", token |-> token]

ServiceToken(token, service) ==
    [tag |-> "ServiceToken", token |-> token, service |-> service]

\* Identity::from_token
Identity_from_token ==
    IF is_some(var("COVERALLS_REPO_TOKEN"))
    THEN Some(RepoToken(var("COVERALLS_REPO_TOKEN")[1]))
    ELSE None

\* Identity::from_env
Identity_from_env ==
    LET token == unwrap_or(var("COVERALLS_REPO_TOKEN"), "")
    IN  IF is_some(Service_from_env)
        THEN Some(ServiceToken(token, Service_from_env[1]))
        ELSE None

\* A best_match that does what its doc comment says: the repo token first.
Identity_best_match_TokenFirst ==
    IF is_some(Identity_from_token) THEN Identity_from_token
    ELSE IF is_some(Identity_from_env) THEN Identity_from_env
    ELSE None

\* Identity::best_match
Identity_best_match ==
    IF is_some(Identity_from_env) THEN Identity_from_env
    ELSE IF is_some(Identity_from_token) THEN Identity_from_token
    ELSE None

\* Identity::best_match_with_token
Identity_best_match_with_token(token) ==
    IF is_some(Identity_from_env) /\ Identity_from_env[1].tag = "ServiceToken"
    THEN ServiceToken(token, Identity_from_env[1].service)
    ELSE RepoToken(token)

(***************************************************************************)
(* SpecEnv: the constructors called on a fixed environment.  `call` holds  *)
(* the last call made: its name, its argument and what it returned.        *)
(***************************************************************************)
NoCall == [op |-> "none", pc |-> "idle"]

NoReport == [tag |-> "NoReport"]

NoHandle == [tag |-> "NoHandle"]

\* A call that was made and has not run yet, and a call that returned.
Invoked(op, arg) == [op |-> op, arg |-> arg, pc |-> "invoked"]

Called(op, arg, ret) == [op |-> op, arg |-> arg, ret |-> ret, pc |-> "returned"]

\* The tags a caller may hand to Service::from_ci.
CiTags ==
    { Travis, TravisPro, Circle, Semaphore, Jenkins, Codeship,
      Other("coveralls-ruby") }

\* The tokens a caller may hand to Identity::best_match_with_token.
Tokens == { "", "s3cr3t", "t0k3n" }

InitEnv ==
    /\ env \in Envs
    /\ call = NoCall
    /\ report = NoReport
    /\ handle = NoHandle

Returns(op, arg, ret) ==
    /\ call' = Called(op, arg, ret)
    /\ UNCHANGED <<env, report, handle>>

CallGetTravisEnv == Returns("Service::get_travis_env", None, Service_get_travis_env)

CallGetCircleEnv == Returns("Service::get_circle_env", None, Service_get_circle_env)

CallGetJenkinsEnv == Returns("Service::get_jenkins_env", None, Service_get_jenkins_env)

CallGetSemaphoreEnv ==
    Returns("Service::get_semaphore_env", None, Service_get_semaphore_env)

CallGetGenericEnv == Returns("Service::get_generic_env", None, Service_get_generic_env)

CallServiceFromEnv == Returns("Service::from_env", None, Service_from_env)

CallServiceFromCi == \E ci \in CiTags : Returns("Service::from_ci", ci, Service_from_ci(ci))

CallFromToken == Returns("Identity::from_token", None, Identity_from_token)

CallIdentityFromEnv == Returns("Identity::from_env", None, Identity_from_env)

CallBestMatch == Returns("Identity::best_match", None, Identity_best_match)

CallBestMatchWithToken ==
    \E token \in Tokens :
        Returns("Identity::best_match_with_token", token,
                Identity_best_match_with_token(token))

NextEnv ==
    \/ CallGetTravisEnv
    \/ CallGetCircleEnv
    \/ CallGetJenkinsEnv
    \/ CallGetSemaphoreEnv
    \/ CallGetGenericEnv
    \/ CallServiceFromEnv
    \/ CallServiceFromCi
    \/ CallFromToken
    \/ CallIdentityFromEnv
    \/ CallBestMatch
    \/ CallBestMatchWithToken

SpecEnv == InitEnv /\ [][NextEnv]_vars

(***************************************************************************)
(* Properties of the environment resolution (checked under SpecEnv)        *)
(***************************************************************************)
IsSet(n) == is_some(env[n])

Indicators == { "TRAVIS", "CIRCLECI", "JENKINS_URL", "SEMAPHORE" }

GenericNames ==
    { "CI_NAME", "CI_BUILD_NUMBER", "CI_JOB_ID", "CI_BUILD_URL", "CI_BRANCH",
      "CI_PULL_REQUEST" }

\* The extraction each indicator stands for, field by field.
TravisExtraction ==
    [ name |-> Travis, job_id |-> env["TRAVIS_JOB_ID"], number |-> None,
      build_url |-> None, branch |-> env["TRAVIS_BRANCH"],
      pull_request |-> IF env["TRAVIS_PULL_REQUEST"] \in { None, Some("false") }
                       THEN None ELSE env["TRAVIS_PULL_REQUEST"] ]

CircleExtraction ==
    [ name |-> Circle, job_id |-> None, number |-> env["CIRCLE_BUILD_NUM"],
      build_url |-> None, branch |-> env["CIRCLE_BRANCH"], pull_request |-> None ]

JenkinsExtraction ==
    [ name |-> Jenkins, job_id |-> None, number |-> env["BUILD_NUM"],
      build_url |-> env["BUILD_URL"], branch |-> env["GIT_BRANCH"],
      pull_request |-> None ]

SemaphoreExtraction ==
    [ name |-> Semaphore, job_id |-> None,
      number |-> env["SEMAPHORE_BUILD_NUMBER"], build_url |-> None,
      branch |-> None, pull_request |-> env["PULL_REQUEST_NUMBER"] ]

GenericExtraction ==
    IF \E n \in GenericNames : IsSet(n)
    THEN Some([ name |-> IF IsSet("CI_NAME")
                         THEN CiService_from_str(env["CI_NAME"][1])
                         ELSE Other("unknown"),
                job_id |-> env["CI_JOB_ID"], number |-> env["CI_BUILD_NUMBER"],
                build_url |-> env["CI_BUILD_URL"], branch |-> env["CI_BRANCH"],
                pull_request |-> env["CI_PULL_REQUEST"] ])
    ELSE None

\* C2: in every environment Service::from_env returns the extraction of the
\* first indicator set in the order TRAVIS, CIRCLECI, JENKINS_URL, SEMAPHORE,
\* else the generic fallback; lower indicators do not influence the result,
\* and with TRAVIS set the result has name Travis and no number or build_url.
C2_FromEnvPrecedence ==
    call.op = "Service::from_env" =>
        /\ IsSet("TRAVIS") => call.ret = Some(TravisExtraction)
        /\ ~IsSet("TRAVIS") /\ IsSet("CIRCLECI") => call.ret = Some(CircleExtraction)
        /\ ~IsSet("TRAVIS") /\ ~IsSet("CIRCLECI") /\ IsSet("JENKINS_URL")
              => call.ret = Some(JenkinsExtraction)
        /\ ~IsSet("TRAVIS") /\ ~IsSet("CIRCLECI") /\ ~IsSet("JENKINS_URL")
              /\ IsSet("SEMAPHORE") => call.ret = Some(SemaphoreExtraction)
        /\ (\A n \in Indicators : ~IsSet(n)) => call.ret = GenericExtraction
        /\ IsSet("TRAVIS") /\ IsSet("CIRCLECI") =>
              /\ call.ret[1].name = Travis
              /\ call.ret[1].number = None
              /\ call.ret[1].build_url = None

\* from_env was called with TRAVIS and CIRCLECI both set.
C2_Witness ==
    /\ call.op = "Service::from_env"
    /\ IsSet("TRAVIS")
    /\ IsSet("CIRCLECI")
    /\ call.ret = Some(Service(Travis, None, None, None, None, None))

\* What identity resolution yields for an optional token.
ResolvedIdentity(tok) ==
    IF is_some(Service_from_env)
    THEN Some(ServiceToken(IF is_some(tok) THEN tok[1] ELSE "", Service_from_env[1]))
    ELSE IF is_some(tok) THEN Some(RepoToken(tok[1]))
    ELSE None

C4_TokenPreferred ==
    call.op = "Identity::best_match" =>
        /\ IsSet("COVERALLS_REPO_TOKEN") =>
              call.ret = Some(RepoToken(env["COVERALLS_REPO_TOKEN"][1]))
        /\ (is_some(call.ret) /\ call.ret[1].tag = "ServiceToken") =>
              ~IsSet("COVERALLS_REPO_TOKEN")

\* C10: Service::get_generic_env returns a service iff one of the six CI_*
\* variables is set; its name is CI_NAME parsed, or Other("unknown") without
\* CI_NAME, and its other fields are the CI_* variables field for field.
\* Service::from_env returns None iff no indicator and no CI_* variable is set.
C10_GenericFallback ==
    /\ call.op = "Service::get_generic_env" =>
          /\ is_some(call.ret) <=> \E n \in GenericNames : IsSet(n)
          /\ is_some(call.ret) =>
                /\ call.ret[1].name =
                      IF IsSet("CI_NAME") THEN CiService_from_str(env["CI_NAME"][1])
                      ELSE Other("unknown")
                /\ call.ret[1].number = env["CI_BUILD_NUMBER"]
                /\ call.ret[1].job_id = env["CI_JOB_ID"]
                /\ call.ret[1].build_url = env["CI_BUILD_URL"]
                /\ call.ret[1].branch = env["CI_BRANCH"]
                /\ call.ret[1].pull_request = env["CI_PULL_REQUEST"]
          /\ env["CI_NAME"] = Some("travis-pro") => call.ret[1].name = TravisPro
          /\ env["CI_NAME"] = Some("coveralls-ruby") =>
                call.ret[1].name = Other("coveralls-ruby")
    /\ call.op = "Service::from_env" =>
          (call.ret = None <=> \A n \in Indicators \cup GenericNames : ~IsSet(n))

\* get_generic_env was called with only CI_PULL_REQUEST set.
C10_Witness ==
    /\ call.op = "Service::get_generic_env"
    /\ IsSet("CI_PULL_REQUEST")
    /\ \A n \in GenericNames \ { "CI_PULL_REQUEST" } : ~IsSet(n)
    /\ call.ret = Some(Service(Other("unknown"), None, None, None, None,
                               env["CI_PULL_REQUEST"]))

\* The extraction keyed to a tag, which reads no presence indicator.
KeyedExtraction(ci) ==
    CASE ci \in { Travis, TravisPro } -> Some(TravisExtraction)
      [] ci = Circle                  -> Some(CircleExtraction)
      [] ci = Semaphore               -> Some(SemaphoreExtraction)
      [] ci = Jenkins                 -> Some(JenkinsExtraction)
      [] OTHER                        -> GenericExtraction

\* C11: whenever Service::from_ci(tag) returns a service, its name is the
\* supplied tag, for every tag and every environment, and its other fields
\* are those of the extraction keyed to the tag, whichever of TRAVIS,
\* CIRCLECI, JENKINS_URL, SEMAPHORE are set.
C11_FromCiNameIsTag ==
    (call.op = "Service::from_ci" /\ is_some(call.ret)) =>
        /\ call.ret[1].name = call.arg
        /\ is_some(KeyedExtraction(call.arg))
        /\ call.ret[1] = [KeyedExtraction(call.arg)[1] EXCEPT !.name = call.arg]

(***************************************************************************)
(* Coverage expansion and Source::new                                      *)
(***************************************************************************)
\* HashMap::get on the hit map, a function from line numbers to hits.
get(lines, k) == IF k \in DOMAIN lines THEN Some(lines[k]) ELSE None

\* An expansion that looks line x up instead of line x + 1.
expand_lines_ZeroBased(lines, line_count) ==
    [i \in 1..line_count |-> LET x == i - 1 IN get(lines, x)]

\* expand_lines: element x (counted from 0) of the result is at index x + 1
\* of the sequence.
expand_lines(lines, line_count) ==
    [i \in 1..line_count |-> LET x == i - 1 IN get(lines, x + 1)]

\* An expansion that leaves out the record's branch_number.
RECURSIVE expand_branches_NoBranchNumber(_)
expand_branches_NoBranchNumber(branches) ==
    IF branches = <<>> THEN <<>>
    ELSE LET x == Head(branches)
         IN  <<x.line_number, x.block_name, x.hits>>
               \o expand_branches_NoBranchNumber(Tail(branches))

\* expand_branches
RECURSIVE expand_branches(_)
expand_branches(branches) ==
    IF branches = <<>> THEN <<>>
    ELSE LET x == Head(branches)
         IN  <<x.line_number, x.block_name, x.branch_number, x.hits>>
               \o expand_branches(Tail(branches))

\* str::lines: the content is cut after every "\n"; the terminator is not
\* part of the line, and no line follows a final terminator.  (A "\r" before
\* the "\n" is dropped from the line too; that changes no line count, and
\* the contents of the model hold no "\r".)
RECURSIVE str_lines(_, _)
str_lines(content, cur) ==
    IF content = <<>> THEN (IF cur = <<>> THEN <<>> ELSE <<cur>>)
    ELSE IF Head(content) = "\n" THEN <<cur>> \o str_lines(Tail(content), <<>>)
    ELSE str_lines(Tail(content), Append(cur, Head(content)))

\* md5::compute(content) as lower-case hex: a value the content determines.
md5_hex(content) == <<"md5", content>>

\* A Source::new that counts the line terminators instead of the lines.
Source_new_CountsNewlines(repo_path, file, lines, branches, include_source) ==
    IF ~is_ok(file.open) THEN Err(file.open.err)
    ELSE IF ~is_ok(file.read) THEN Err(file.read.err)
    ELSE LET content    == file.read.val
             src        == IF include_source THEN Some(content) ELSE None
             brch       == IF is_some(branches)
                           THEN Some(expand_branches(branches[1])) ELSE None
             line_count == Cardinality({ i \in DOMAIN content : content[i] = "\n" })
         IN  Ok([ name          |-> unwrap_or(repo_path, ""),
                  source_digest |-> md5_hex(content),
                  coverage      |-> expand_lines(lines, line_count),
                  branches      |-> brch,
                  source        |-> src ])

\* Source::new.  `file` is what the file system gives for `path`: whether
\* File::open succeeds and whether read_to_string does, with the content;
\* `repo_path` is repo_path.to_str(), None for a path that is not unicode.
Source_new(repo_path, file, lines, branches, include_source) ==
    IF ~is_ok(file.open) THEN Err(file.open.err)
    ELSE IF ~is_ok(file.read) THEN Err(file.read.err)
    ELSE LET content    == file.read.val
             src        == IF include_source THEN Some(content) ELSE None
             brch       == IF is_some(branches)
                           THEN Some(expand_branches(branches[1])) ELSE None
             line_count == Len(str_lines(content, <<>>))
         IN  Ok([ name          |-> unwrap_or(repo_path, ""),
                  source_digest |-> md5_hex(content),
                  coverage      |-> expand_lines(lines, line_count),
                  branches      |-> brch,
                  source        |-> src ])

(***************************************************************************)
(* struct CoverallsReport, its methods and its serializer                  *)
(***************************************************************************)
\* enum UploadStatus
Failed(code) == [tag |-> "Failed", code |-> code]

Succeeded == [tag |-> "Succeeded"]

Pending == [tag |-> "Pending"]

Unknown == [tag |-> "Unknown"]

\* Easy::new(): no url and no response yet, so response_code() is Ok(0).
Easy_new == [url |-> None, response_code |-> Ok(0)]

\* CoverallsReport::new, without the curl handle, which is `handle`.
CoverallsReport_new(id) ==
    [id |-> id, source_files |-> <<>>, commit |-> None, git |-> None]

\* CoverallsReport::add_source
CoverallsReport_add_source(self, source) ==
    [self EXCEPT !.source_files = Append(self.source_files, source)]

\* A set_commit that leaves the detailed git information in place.
CoverallsReport_set_commit_KeepsGit(self, commit) ==
    [self EXCEPT !.commit = Some(commit)]

\* CoverallsReport::set_commit
CoverallsReport_set_commit(self, commit) ==
    [self EXCEPT !.commit = Some(commit), !.git = None]

\* CoverallsReport::set_detailed_git_info
CoverallsReport_set_detailed_git_info(self, git) ==
    [self EXCEPT !.git = Some(git), !.commit = None]

\* An upload_status that takes every 2xx code for a success.
CoverallsReport_upload_status_Any2xx(h) ==
    LET rc == h.response_code
    IN  IF is_ok(rc) /\ rc.val >= 200 /\ rc.val < 300 THEN Succeeded
        ELSE IF is_ok(rc) /\ rc.val = 0 THEN Pending
        ELSE IF is_ok(rc) THEN Failed(rc.val)
        ELSE Unknown

\* CoverallsReport::upload_status, on the handle's response_code()
CoverallsReport_upload_status(h) ==
    LET rc == h.response_code
    IN  IF is_ok(rc) /\ rc.val = 200 THEN Succeeded
        ELSE IF is_ok(rc) /\ rc.val = 0 THEN Pending
        ELSE IF is_ok(rc) THEN Failed(rc.val)
        ELSE Unknown

\* serialize_field: one key of the object, with its value.
field(key, value) == << <<key, value>> >>

\* A field written only for Some(value).
field_if_some(key, o) == IF is_some(o) THEN field(key, o[1]) ELSE <<>>

\* Vec<Option<usize>> in JSON: null for None, the number for Some.
SerializeCoverage(coverage) ==
    [i \in DOMAIN coverage |->
        IF is_some(coverage[i]) THEN coverage[i][1] ELSE "null"]

\* #[derive(Serialize)] for Source, with its skip_serializing_if attributes
SerializeSource(src) ==
    field("name", src.name)
      \o field("source_digest", src.source_digest)
      \o field("coverage", SerializeCoverage(src.coverage))
      \o field_if_some("branches", src.branches)
      \o field_if_some("source", src.source)

\* A serializer that writes repo_token for a service identity even when the
\* token is empty.
Serialize_AlwaysToken(self) ==
    LET size == 1 + (IF self.id.tag = "RepoToken"
                     THEN 1 + (IF is_some(self.commit) THEN 1 ELSE 0)
                     ELSE 2 + (IF is_some(self.commit) THEN 1 ELSE 0))
        ident == IF self.id.tag = "RepoToken"
                 THEN field("repo_token", self.id.token)
                 ELSE LET r == self.id.token
                          serv == self.id.service
                      IN  field("repo_token", r)
                            \o field("service_name", CiService_value(serv.name))
                            \o field_if_some("service_job_id", serv.job_id)
                            \o field_if_some("service_number", serv.number)
                            \o field_if_some("service_build_url", serv.build_url)
                            \o field_if_some("service_branch", serv.branch)
                            \o field_if_some("service_pull_request", serv.pull_request)
    IN  [ name   |-> "CoverallsReport",
          size   |-> size,
          fields |-> ident
                       \o field_if_some("commit_sha", self.commit)
                       \o field_if_some("git", self.git)
                       \o field("source_files",
                                [i \in DOMAIN self.source_files |->
                                    SerializeSource(self.source_files[i])]) ]

\* impl Serialize for CoverallsReport: the struct's name, the size hint
\* given to serialize_struct and the fields in the order they are written.
Serialize(self) ==
    LET size == 1 + (IF self.id.tag = "RepoToken"
                     THEN 1 + (IF is_some(self.commit) THEN 1 ELSE 0)
                     ELSE 2 + (IF is_some(self.commit) THEN 1 ELSE 0))
        ident == IF self.id.tag = "RepoToken"
                 THEN field("repo_token", self.id.token)
                 ELSE LET r == self.id.token
                          serv == self.id.service
                      IN  (IF r # "" THEN field("repo_token", r) ELSE <<>>)
                            \o field("service_name", CiService_value(serv.name))
                            \o field_if_some("service_job_id", serv.job_id)
                            \o field_if_some("service_number", serv.number)
                            \o field_if_some("service_build_url", serv.build_url)
                            \o field_if_some("service_branch", serv.branch)
                            \o field_if_some("service_pull_request", serv.pull_request)
    IN  [ name   |-> "CoverallsReport",
          size   |-> size,
          fields |-> ident
                       \o field_if_some("commit_sha", self.commit)
                       \o field_if_some("git", self.git)
                       \o field("source_files",
                                [i \in DOMAIN self.source_files |->
                                    SerializeSource(self.source_files[i])]) ]

(***************************************************************************)
(* SpecSource: one call of expand_lines, expand_branches, Source::new or    *)
(* the serializer on bounded arguments.                                    *)
(***************************************************************************)
\* Longest file content, in characters.
MaxContentLen == 2

\* Largest line_count handed to expand_lines directly.
MaxLineCount == 4

\* Most entries of a hit map.
MaxHitEntries == 2

\* Most branch records of a call.
MaxBranches == 2

Chars == { "a", "\n" }

Contents == UNION { [1..k -> Chars] : k \in 0..MaxContentLen }

HitCounts == { 0, 2 }

\* The hit maps with keys among `keys`.
HitMaps(keys) ==
    UNION { [K -> HitCounts] :
              K \in { S \in SUBSET keys : Cardinality(S) <= MaxHitEntries } }

BranchData(line_number, block_name, branch_number, hits) ==
    [ line_number |-> line_number, block_name |-> block_name,
      branch_number |-> branch_number, hits |-> hits ]

BranchRecords == { BranchData(3, 1, 1, 1), BranchData(4, 1, 2, 0) }

BranchSeqs == UNION { [1..k -> BranchRecords] : k \in 0..MaxBranches }

Files ==
    { [open |-> Err("NotFound")], [open |-> Ok("fd"), read |-> Err("InvalidData")] }
      \cup { [open |-> Ok("fd"), read |-> Ok(c)] : c \in Contents }

RepoPaths == { Some("src/lib.rs"), None }

ExpandLinesArgs ==
    { [lines |-> h, line_count |-> n] :
        h \in HitMaps(0..(MaxLineCount + 1)), n \in 0..MaxLineCount }

SourceNewArgs ==
    { [repo_path |-> p, file |-> f, lines |-> h, branches |-> b,
       include_source |-> i] :
        p \in RepoPaths, f \in Files, h \in HitMaps(0..(MaxContentLen + 1)),
        b \in { None } \cup { Some(q) : q \in BranchSeqs }, i \in BOOLEAN }

\* Every shape of Service: each name, each optional field set or not.
Services ==
    { Service(n, j, u, b, r, q) :
        n \in CiTags, j \in { None, Some("job-1") }, u \in { None, Some("42") },
        b \in { None, Some("https://ci.example/build/42") },
        r \in { None, Some("main") }, q \in { None, Some("7") } }

Identities ==
    { RepoToken(t) : t \in { "", "s3cr3t" } }
      \cup { ServiceToken(t, v) : t \in { "", "s3cr3t" }, v \in Services }

Commits == { "0a1b2c", "9f8e7d" }

GitInfos ==
    { [ head    |-> [ id |-> "0a1b2c", author_name |-> "A", author_email |-> "a@x",
                      committer_name |-> "C", committer_email |-> "c@x",
                      message |-> "m" ],
        branch  |-> "main",
        remotes |-> << [name |-> "origin", url |-> "git@x:r.git"] >> ] }

\* Two sources as Source::new makes them.
SampleSources ==
    { Source_new(Some("src/lib.rs"), [open |-> Ok("fd"), read |-> Ok(<< "a", "\n" >>)],
                 [k \in { 1 } |-> 2], None, FALSE).val,
      Source_new(Some("src/main.rs"), [open |-> Ok("fd"), read |-> Ok(<< "\n", "a" >>)],
                 [k \in { 2 } |-> 0], Some(<< BranchData(3, 1, 1, 1) >>), TRUE).val }

\* The reports handed to the serializer: every identity, with a commit, with
\* git information or with neither, with and without a source.
SerializeArgs ==
    { [id |-> i, source_files |-> f, commit |-> c[1], git |-> c[2]] :
        i \in Identities,
        f \in { <<>> } \cup { << x >> : x \in SampleSources },
        c \in { << None, None >> } \cup { << Some(x), None >> : x \in Commits }
                \cup { << None, Some(g) >> : g \in GitInfos } }

InitSource ==
    /\ env = EmptyEnv
    /\ report = NoReport
    /\ handle = NoHandle
    /\ \/ \E a \in ExpandLinesArgs : call = Invoked("expand_lines", a)
       \/ \E b \in BranchSeqs : call = Invoked("expand_branches", b)
       \/ \E a \in SourceNewArgs : call = Invoked("Source::new", a)
       \/ \E r \in SerializeArgs : call = Invoked("serialize", r)

RunExpandLines ==
    /\ call.pc = "invoked"
    /\ call.op = "expand_lines"
    /\ Returns(call.op, call.arg, expand_lines(call.arg.lines, call.arg.line_count))

RunExpandBranches ==
    /\ call.pc = "invoked"
    /\ call.op = "expand_branches"
    /\ Returns(call.op, call.arg, expand_branches(call.arg))

RunSourceNew ==
    /\ call.pc = "invoked"
    /\ call.op = "Source::new"
    /\ Returns(call.op, call.arg,
               Source_new(call.arg.repo_path, call.arg.file, call.arg.lines,
                          call.arg.branches, call.arg.include_source))

RunSerialize ==
    /\ call.pc = "invoked"
    /\ call.op = "serialize"
    /\ Returns(call.op, call.arg, Serialize(call.arg))

NextSource ==
    \/ RunExpandLines
    \/ RunExpandBranches
    \/ RunSourceNew
    \/ RunSerialize

SpecSource == InitSource /\ [][NextSource]_vars

(***************************************************************************)
(* Properties of the coverage expansion (checked under SpecSource)         *)
(***************************************************************************)
\* coverage is the dense form of the hit map h over n lines.
DenseOf(coverage, h, n) ==
    /\ Len(coverage) = n
    /\ \A i \in 0..(n - 1) :
          /\ (i + 1) \in DOMAIN h => coverage[i + 1] = Some(h[i + 1])
          /\ (i + 1) \notin DOMAIN h => coverage[i + 1] = None

\* flat holds the four fields of every record of recs, in the records' order.
FlatOf(flat, recs) ==
    /\ Len(flat) = 4 * Len(recs)
    /\ \A k \in 0..(Len(recs) - 1) :
          /\ flat[4 * k + 1] = recs[k + 1].line_number
          /\ flat[4 * k + 2] = recs[k + 1].block_name
          /\ flat[4 * k + 3] = recs[k + 1].branch_number
          /\ flat[4 * k + 4] = recs[k + 1].hits

\* The number of lines of a content: one per "\n", and one more for a last
\* line without terminator.
LineCount(content) ==
    Cardinality({ i \in DOMAIN content : content[i] = "\n" })
      + (IF content # <<>> /\ content[Len(content)] # "\n" THEN 1 ELSE 0)

\* C6: expand_lines(H, line_count) has length line_count; element i (from 0)
\* is Some(H[i+1]) iff i+1 is a key of H and None otherwise, so keys outside
\* 1..line_count contribute nothing.
C6_ExpandLines ==
    (call.op = "expand_lines" /\ call.pc = "returned") =>
        DenseOf(call.ret, call.arg.lines, call.arg.line_count)

\* expand_lines returned for a map with key 0, a key inside and a key beyond
\* line_count.
C6_Witness ==
    /\ call.op = "expand_lines"
    /\ call.pc = "returned"
    /\ call.arg.line_count = 2
    /\ \E h \in HitCounts : call.arg.lines = [k \in { 0, 2 } |-> h]
    /\ call.ret[1] = None
    /\ call.ret[2] = Some(call.arg.lines[2])

\* C7: expand_branches of N records has length 4N; positions 4k..4k+3 hold
\* line_number, block_name, branch_number, hits of record k, in input order,
\* nothing dropped, merged or reordered.
C7_ExpandBranches ==
    (call.op = "expand_branches" /\ call.pc = "returned") =>
        FlatOf(call.ret, call.arg)

\* expand_branches returned for the same record given twice.
C7_Witness ==
    /\ call.op = "expand_branches"
    /\ call.pc = "returned"
    /\ call.arg = << BranchData(3, 1, 1, 1), BranchData(3, 1, 1, 1) >>
    /\ call.ret = << 3, 1, 1, 1, 3, 1, 1, 1 >>

\* C9: a Source made by Source::new from readable content has a coverage of
\* the content's line count that is the dense form of the hit map; branches
\* is None iff no records were given and else the flattened records, of
\* length 4 times their number; source is the content iff include_source.
C9_SourceNew ==
    ( /\ call.op = "Source::new"
      /\ call.pc = "returned"
      /\ is_ok(call.arg.file.open)
      /\ is_ok(call.arg.file.read) ) =>
        /\ is_ok(call.ret)
        /\ LET src     == call.ret.val
               content == call.arg.file.read.val
           IN  /\ DenseOf(src.coverage, call.arg.lines, LineCount(content))
               /\ src.branches = None <=> call.arg.branches = None
               /\ call.arg.branches # None =>
                     /\ is_some(src.branches)
                     /\ FlatOf(src.branches[1], call.arg.branches[1])
               /\ call.arg.include_source => src.source = Some(content)
               /\ ~call.arg.include_source => src.source = None

\* Source::new returned for a content of two lines, the second without a
\* terminator, with two branch records and the source included.
C9_Witness ==
    /\ call.op = "Source::new"
    /\ call.pc = "returned"
    /\ is_ok(call.ret)
    /\ call.arg.file.read.val = << "\n", "a" >>
    /\ call.arg.include_source
    /\ call.ret.val.coverage = << None, Some(2) >>
    /\ is_some(call.ret.val.branches)
    /\ Len(call.ret.val.branches[1]) = 8
    /\ call.ret.val.source = Some(<< "\n", "a" >>)

(***************************************************************************)
(* Properties of the serializer (checked under SpecSource)                 *)
(***************************************************************************)
Keys(fields) == { fields[i][1] : i \in DOMAIN fields }

ValueOf(fields, key) ==
    fields[CHOOSE i \in DOMAIN fields : fields[i][1] = key][2]

IdentityKeys ==
    { "repo_token", "service_name", "service_job_id", "service_number",
      "service_build_url", "service_branch", "service_pull_request" }

\* The literal each CI name is written as.
NameLiteral(n) ==
    CASE n = Travis    -> "travis-ci"
      [] n = TravisPro -> "travis-pro"
      [] n = Circle    -> "circle-ci"
      [] n = Semaphore -> "semaphore"
      [] n = Jenkins   -> "jenkins"
      [] n = Codeship  -> "codeship"
      [] OTHER         -> n.name

\* The optional service keys and the Service field each is written from.
ServiceKeys ==
    { << "service_job_id", "job_id" >>, << "service_number", "number" >>,
      << "service_build_url", "build_url" >>, << "service_branch", "branch" >>,
      << "service_pull_request", "pull_request" >> }

\* C5: the identity keys of the serialized report are, for RepoToken(token),
\* repo_token = token and no service key; for ServiceToken(token, service),
\* repo_token iff token is not empty, service_name always, as the string form
\* of the name, and each other service key iff its field is set, with its value.
C5_IdentityKeys ==
    (call.op = "serialize" /\ call.pc = "returned") =>
        LET f    == call.ret.fields
            id   == call.arg.id
            keys == Keys(f) \cap IdentityKeys
        IN  /\ \A i, j \in DOMAIN f : f[i][1] = f[j][1] => i = j
            /\ id.tag = "RepoToken" =>
                  /\ keys = { "repo_token" }
                  /\ ValueOf(f, "repo_token") = id.token
            /\ id.tag = "ServiceToken" =>
                  /\ "repo_token" \in keys <=> id.token # ""
                  /\ id.token # "" => ValueOf(f, "repo_token") = id.token
                  /\ "service_name" \in keys
                  /\ ValueOf(f, "service_name") = NameLiteral(id.service.name)
                  /\ \A k \in ServiceKeys :
                        /\ k[1] \in keys <=> is_some(id.service[k[2]])
                        /\ is_some(id.service[k[2]]) =>
                              ValueOf(f, k[1]) = id.service[k[2]][1]

\* The serializer returned for ServiceToken("", service) with name Circle, no
\* job_id and number 42.
C5_Witness ==
    /\ call.op = "serialize"
    /\ call.pc = "returned"
    /\ call.arg.id = ServiceToken("", Service(Circle, None, Some("42"), None, None, None))
    /\ Keys(call.ret.fields) \cap IdentityKeys = { "service_name", "service_number" }
    /\ ValueOf(call.ret.fields, "service_name") = "circle-ci"
    /\ ValueOf(call.ret.fields, "service_number") = "42"

(***************************************************************************)
(* SpecReport: a CoverallsReport is made for an identity, then filled,     *)
(* sent and polled in any order.  `handle` is the report's curl handle.    *)
(***************************************************************************)
\* Most sources added to a report.
MaxSources == 2

\* The identities reports are made for: a repo token, the service identity
\* of tests/fill_in_example.rs, and a service identity with a token.
ReportIds ==
    { RepoToken("s3cr3t"),
      ServiceToken("", Service(Travis, Some("job-1"), None, None, None, None)),
      ServiceToken("s3cr3t", Service(Circle, None, Some("42"), None, Some("main"), None)) }

CoverallsUrl == "https://coveralls.io/api/v1/jobs"

Urls == { CoverallsUrl, "https://coveralls.example/api/v1/jobs" }

\* What response_code() may give once a transfer was performed.
ResponseCodes ==
    { Ok(0), Ok(200), Ok(201), Ok(404), Err("curl") }

\* What perform() may return.
PerformResults == { Ok("()"), Err("curl") }

InitReport ==
    /\ env = EmptyEnv
    /\ \E id \in ReportIds :
          /\ report = CoverallsReport_new(id)
          /\ call = Called("CoverallsReport::new", id, "Self")
    /\ handle = Easy_new

\* A method that changed the report: `before` keeps the commit and git it
\* found.
Mutated(op, arg, self) ==
    /\ report' = self
    /\ call' = [ op |-> op, arg |-> arg, ret |-> "()", pc |-> "returned",
                 before |-> [commit |-> report.commit, git |-> report.git] ]
    /\ UNCHANGED <<env, handle>>

AddSource ==
    /\ Len(report.source_files) < MaxSources
    /\ \E source \in SampleSources :
          Mutated("add_source", source, CoverallsReport_add_source(report, source))

SetCommit ==
    \E commit \in Commits :
        Mutated("set_commit", commit, CoverallsReport_set_commit(report, commit))

SetDetailedGitInfo ==
    \E git \in GitInfos :
        Mutated("set_detailed_git_info", git,
                CoverallsReport_set_detailed_git_info(report, git))

\* CoverallsReport::send_to_endpoint: the report is serialized and gzipped
\* into the form, the url is set and the transfer performed; what perform()
\* returns and what response code it leaves are the transport's.
send_to_endpoint(op, url) ==
    \E res \in PerformResults, rc \in ResponseCodes :
        /\ handle' = [url |-> Some(url), response_code |-> rc]
        /\ call' = [ op |-> op, arg |-> url, ret |-> res, pc |-> "returned",
                     body |-> [encoding |-> "gzip", json |-> Serialize(report)] ]
        /\ UNCHANGED <<env, report>>

SendToEndpoint == \E url \in Urls : send_to_endpoint("send_to_endpoint", url)

\* CoverallsReport::send_to_coveralls
SendToCoveralls == send_to_endpoint("send_to_coveralls", CoverallsUrl)

UploadStatus ==
    /\ call' = Called("upload_status", None, CoverallsReport_upload_status(handle))
    /\ UNCHANGED <<env, report, handle>>

NextReport ==
    \/ AddSource
    \/ SetCommit
    \/ SetDetailedGitInfo
    \/ SendToEndpoint
    \/ SendToCoveralls
    \/ UploadStatus

SpecReport == InitReport /\ [][NextReport]_vars

(***************************************************************************)
(* Properties of the report (checked under SpecReport)                     *)
(***************************************************************************)
\* C1: commit and git are never both set; right after set_commit the commit
\* is set and git is unset, right after set_detailed_git_info git is set and
\* the commit is unset, whatever was called before.
C1_CommitGitExclusive ==
    /\ ~(is_some(report.commit) /\ is_some(report.git))
    /\ call.op = "set_commit" =>
          report.commit = Some(call.arg) /\ report.git = None
    /\ call.op = "set_detailed_git_info" =>
          report.git = Some(call.arg) /\ report.commit = None

\* set_commit was called on a report that had git information and sources.
C1_Witness ==
    /\ call.op = "set_commit"
    /\ is_some(call.before.git)
    /\ report.source_files # <<>>
    /\ is_some(report.commit)
    /\ report.git = None

\* C8: upload_status gives Succeeded for Ok(200), Pending for Ok(0),
\* Failed(x) with the same x for every other Ok(x), and Unknown for an error;
\* so an error or a missing response is never Succeeded or Failed, and
\* Failed never carries 200 or 0.
C8_UploadStatus ==
    call.op = "upload_status" =>
        LET rc == handle.response_code
        IN  /\ rc = Ok(200) => call.ret = Succeeded
            /\ rc = Ok(0) => call.ret = Pending
            /\ (is_ok(rc) /\ rc.val \notin { 0, 200 }) => call.ret = Failed(rc.val)
            /\ ~is_ok(rc) => call.ret = Unknown
            /\ (~is_ok(rc) \/ rc = Ok(0)) =>
                  call.ret # Succeeded /\ call.ret.tag # "Failed"
            /\ call.ret.tag = "Failed" => call.ret.code \notin { 0, 200 }

\* upload_status was called after a transfer that ended with a 2xx code
\* other than 200.
C8_Witness ==
    /\ call.op = "upload_status"
    /\ handle.response_code = Ok(201)
    /\ call.ret = Failed(201)

====
